---------------------------- MODULE Spec2Model ----------------------------
(***************************************************************************)
(* Model of napalm_vyos/vyos.py (VyOSDriver): the text-scraping accessors  *)
(* and the duration parser.  Device output is modelled as the text itself  *)
(* (TLA+ strings, examined character by character); every accessor is one  *)
(* action that reads the CommandChannel's responses and leaves its return  *)
(* value, or the exception it raised, in ret.                              *)
(***************************************************************************)
EXTENDS Integers, Sequences, FiniteSets, TLC

VARIABLES
    channel,    \* CommandChannel: command string -> text the device answers
    conf_tree,  \* what vyattaconfparser.parse_conf yields for 'show configuration'
    arg,        \* the argument of the helper under call (_bgp_time_conversion)
    ret,        \* outcome of the call made: function name, exception, value
    _new_config,  \* self._new_config: the candidate configuration, or None
    _device     \* the operations that commit_config had the device execute, in order

vars == <<channel, conf_tree, arg, ret, _new_config, _device>>

(***************************************************************************)
(* Python values and outcomes.                                             *)
(***************************************************************************)
None == [py |-> "None"]

NoCall == [fn |-> "", raised |-> "", value |-> None]

Return(f, v) == [fn |-> f, raised |-> "", value |-> v]

Raise(f, e) == [fn |-> f, raised |-> e, value |-> None]

(***************************************************************************)
(* Strings: str methods and the character classes of the re module.        *)
(***************************************************************************)
Char(s, i) == SubSeq(s, i, i)

Digits == {"0", "1", "2", "3", "4", "5", "6", "7", "8", "9"}

Letters ==
    {"a", "b", "c", "d", "e", "f", "g", "h", "i", "j", "k", "l", "m",
     "n", "o", "p", "q", "r", "s", "t", "u", "v", "w", "x", "y", "z",
     "A", "B", "C", "D", "E", "F", "G", "H", "I", "J", "K", "L", "M",
     "N", "O", "P", "Q", "R", "S", "T", "U", "V", "W", "X", "Y", "Z"}

Whitespace == {" ", "\n", "\t", "\r"}

IsDigit(c) == c \in Digits

\* \w of the re module (no flags): [a-zA-Z0-9_]
IsWordChar(c) == c \in Digits \cup Letters \cup {"_"}

IsSpace(c) == c \in Whitespace

\* sub in s
Contains(s, sub) ==
    \E i \in 1..(Len(s) - Len(sub) + 1) : SubSeq(s, i, i + Len(sub) - 1) = sub

\* set(s)
CharSet(s) == {Char(s, i) : i \in 1..Len(s)}

\* end of the maximal run of characters of class cls starting at i (i - 1 if none)
RECURSIVE RunEnd(_, _, _)
RunEnd(s, i, cls) ==
    IF i > Len(s) \/ Char(s, i) \notin cls THEN i - 1 ELSE RunEnd(s, i + 1, cls)

\* end of the maximal run of characters outside cls starting at i (i - 1 if none)
RECURSIVE RunEndNot(_, _, _)
RunEndNot(s, i, cls) ==
    IF i > Len(s) \/ Char(s, i) \in cls THEN i - 1 ELSE RunEndNot(s, i + 1, cls)

RECURSIVE SplitFrom(_, _, _)
SplitFrom(s, sep, i) ==
    LET e == RunEndNot(s, i, {sep})
    IN  IF e >= Len(s) THEN <<SubSeq(s, i, Len(s))>>
        ELSE <<SubSeq(s, i, e)>> \o SplitFrom(s, sep, e + 2)

\* s.split(sep) for a one-character separator
split(s, sep) == SplitFrom(s, sep, 1)

RECURSIVE WordsFrom(_, _)
WordsFrom(s, i) ==
    LET b == RunEnd(s, i, Whitespace) + 1
        e == RunEndNot(s, b, Whitespace)
    IN  IF b > Len(s) THEN <<>>
        ELSE <<SubSeq(s, b, e)>> \o WordsFrom(s, e + 1)

\* s.split(): the maximal runs of non-whitespace characters
split_ws(s) == WordsFrom(s, 1)

\* s.strip(chars) for a set of characters
strip(s, chars) ==
    LET keep == {i \in 1..Len(s) : Char(s, i) \notin chars}
    IN  IF keep = {} THEN ""
        ELSE SubSeq(s, CHOOSE i \in keep : \A k \in keep : i <= k,
                       CHOOSE j \in keep : \A k \in keep : j >= k)

DigitVal(c) ==
    CASE c = "0" -> 0 [] c = "1" -> 1 [] c = "2" -> 2 [] c = "3" -> 3
      [] c = "4" -> 4 [] c = "5" -> 5 [] c = "6" -> 6 [] c = "7" -> 7
      [] c = "8" -> 8 [] c = "9" -> 9

RECURSIVE DecVal(_)
DecVal(s) ==
    IF Len(s) = 0 THEN 0
    ELSE 10 * DecVal(SubSeq(s, 1, Len(s) - 1)) + DigitVal(Char(s, Len(s)))

AllDigits(s) == Len(s) > 0 /\ \A i \in 1..Len(s) : IsDigit(Char(s, i))

\* whether int(s) succeeds: surrounding whitespace, an optional sign, digits
IsIntLiteral(s) ==
    LET t == strip(s, Whitespace)
    IN  IF Len(t) > 0 /\ Char(t, 1) \in {"+", "-"}
        THEN AllDigits(SubSeq(t, 2, Len(t)))
        ELSE AllDigits(t)

\* int(s), for s with IsIntLiteral(s)
int(s) ==
    LET t == strip(s, Whitespace)
    IN  IF Char(t, 1) = "-" THEN 0 - DecVal(SubSeq(t, 2, Len(t)))
        ELSE IF Char(t, 1) = "+" THEN DecVal(SubSeq(t, 2, Len(t)))
        ELSE DecVal(t)

\* "\n".join of the lines
RECURSIVE JoinLines(_)
JoinLines(ls) ==
    IF Len(ls) = 0 THEN ""
    ELSE IF Len(ls) = 1 THEN ls[1]
    ELSE ls[1] \o "\n" \o JoinLines(Tail(ls))

\* all sequences over S of length lo..hi
SeqsOf(S, lo, hi) == UNION {[1..n -> S] : n \in lo..hi}

(***************************************************************************)
(* Duration parser: VyOSDriver._bgp_time_conversion                        *)
(***************************************************************************)
_MINUTE_SECONDS == 60

_HOUR_SECONDS == 60 * _MINUTE_SECONDS

_DAY_SECONDS == 24 * _HOUR_SECONDS

_WEEK_SECONDS == 7 * _DAY_SECONDS

_YEAR_SECONDS == 365 * _DAY_SECONDS

uptime_letters == {"y", "w", "h", "d"}

times ==
    [y |-> _YEAR_SECONDS, w |-> _WEEK_SECONDS, d |-> _DAY_SECONDS, h |-> _HOUR_SECONDS]

\* The places where "(\d+)(\w)(\d+)(\w)(\d+)(\w)" matches: <<start, e1, e3, e5>>,
\* the start and the ends of the three digit groups.
UptimeMatches(s) ==
    LET ends(b) == b..RunEnd(s, b, Digits)   \* where a \d+ begun at b may end
        unit(e) == e + 1 <= Len(s) /\ IsWordChar(Char(s, e + 1))
    IN  UNION {UNION {UNION {{<<a, e1, e3, e5>> : e5 \in {e \in ends(e3 + 2) : unit(e)}} :
                             e3 \in {e \in ends(e1 + 2) : unit(e)}} :
                      e1 \in {e \in ends(a) : unit(e)}} :
               a \in 1..Len(s)}

\* the backtracking order of re.search: leftmost start, then each \d+ greedy
Preferred(m, n) ==
    \/ m[1] < n[1]
    \/ m[1] = n[1] /\ m[2] > n[2]
    \/ m[1] = n[1] /\ m[2] = n[2] /\ m[3] > n[3]
    \/ m[1] = n[1] /\ m[2] = n[2] /\ m[3] = n[3] /\ m[4] >= n[4]

\* re.search("(\d+)(\w)(\d+)(\w)(\d+)(\w)", s): the six groups, or <<>> for None
re_search_uptime(s) ==
    LET ms == UptimeMatches(s)
    IN  IF ms = {} THEN <<>>
        ELSE LET m == CHOOSE m \in ms : \A n \in ms : Preferred(m, n)
             IN  <<SubSeq(s, m[1], m[2]), Char(s, m[2] + 1),
                   SubSeq(s, m[2] + 2, m[3]), Char(s, m[3] + 1),
                   SubSeq(s, m[3] + 2, m[4]), Char(s, m[4] + 1)>>

_bgp_time_conversion(bgp_uptime) ==
    IF Contains(bgp_uptime, "never") THEN Return("_bgp_time_conversion", -1)
    ELSE IF Contains(bgp_uptime, ":") THEN
        LET parts == split(bgp_uptime, ":")
        IN  IF Len(parts) # 3 \/ \E i \in 1..Len(parts) : ~IsIntLiteral(parts[i])
            THEN Raise("_bgp_time_conversion", "ValueError")
            ELSE Return("_bgp_time_conversion",
                        int(parts[1]) * _HOUR_SECONDS
                        + int(parts[2]) * _MINUTE_SECONDS + int(parts[3]))
    ELSE IF uptime_letters \cap CharSet(bgp_uptime) # {} THEN
        LET match == re_search_uptime(bgp_uptime)
        IN  IF Len(match) = 0 THEN Raise("_bgp_time_conversion", "AttributeError")
            ELSE IF \E i \in {2, 4, 6} : match[i] \notin DOMAIN times
            THEN Raise("_bgp_time_conversion", "KeyError")
            ELSE Return("_bgp_time_conversion",
                        int(match[1]) * times[match[2]]
                        + int(match[3]) * times[match[4]]
                        + int(match[5]) * times[match[6]])
    ELSE Raise("_bgp_time_conversion", "UnboundLocalError")

\* ---- inputs: uptime tokens assembled from at most MaxTimeParts parts
MaxTimeParts == 4

TimeNumbers == {"2", "4"}

TimeSuffixes == {"", "y", "w", "d", "h", "m", ":"}

TimeParts == {n \o x : n \in TimeNumbers, x \in TimeSuffixes} \cup {"never", "x"}

RECURSIVE Concat(_)
Concat(ps) == IF Len(ps) = 0 THEN "" ELSE ps[1] \o Concat(Tail(ps))

UptimeTokens == {Concat(ps) : ps \in SeqsOf(TimeParts, 1, MaxTimeParts)}

InitTime ==
    /\ channel = <<>>
    /\ conf_tree = <<>>
    /\ arg \in UptimeTokens
    /\ ret = NoCall
    /\ _new_config = None
    /\ _device = <<>>

BgpTimeConversion ==
    /\ ret.fn = ""
    /\ ret' = _bgp_time_conversion(arg)
    /\ UNCHANGED <<channel, conf_tree, arg, _new_config, _device>>

NextTime == BgpTimeConversion

SpecTime == InitTime /\ [][NextTime]_vars

\* ---- claims about the duration parser
Called(f) == ret.fn = f

DhmNumbers == {Concat(ds) : ds \in SeqsOf(TimeNumbers, 1, 2)}

\* C1: every token "<a>d<b>h<c>m" (days, hours, minutes) converts to the integer
\* a*86400 + b*3600 + c*60.
C1_DhmSeconds ==
    \A a \in DhmNumbers, b \in DhmNumbers, c \in DhmNumbers :
        (Called("_bgp_time_conversion") /\ arg = a \o "d" \o b \o "h" \o c \o "m")
            => /\ ret.raised = ""
               /\ ret.value = DecVal(a) * 86400 + DecVal(b) * 3600 + DecVal(c) * 60

\* the three recognized forms of an uptime token
IsNever(t) == t = "never"

IsHMS(t) ==
    LET p == split(t, ":")
    IN  Len(p) = 3 /\ \A i \in 1..3 : AllDigits(p[i])

IsThreeGroups(t) ==
    LET tags == {i \in 1..Len(t) : ~IsDigit(Char(t, i))}
    IN  /\ Cardinality(tags) = 3
        /\ Len(t) \in tags
        /\ \A i \in tags : i > 1 /\ IsDigit(Char(t, i - 1)) /\ Char(t, i) \in {"y", "w", "d", "h"}

\* C4: a token of none of the three recognized forms makes the conversion fail;
\* no number is returned for it.
C4_UnrecognizedFails ==
    (Called("_bgp_time_conversion") /\ ~IsNever(arg) /\ ~IsHMS(arg) /\ ~IsThreeGroups(arg))
        => ret.raised # ""

(***************************************************************************)
(* CommandChannel and the users projector: VyOSDriver.get_users            *)
(***************************************************************************)
\* _send_command: the stdout the device gives for the command
_send_command(command) == channel[command]

\* seq[k] with Python's 0-based index
Py(seq, k) == seq[k + 1]

\* user_conf = [x.split() for x in output if "login" in x]
user_conf(output) ==
    LET kept == SelectSeq(output, LAMBDA x : Contains(x, "login"))
    IN  [i \in 1..Len(kept) |-> split_ws(kept[i])]

\* item in list
InList(item, list) == \E j \in 1..Len(list) : list[j] = item

\* One pass of the inner loop body over line: acc holds the loop's variables
\* (password and level survive from one user to the next; has_* tell whether the
\* name is bound yet).
scan_line(acc, line) ==
    IF acc.raised # "" THEN acc
    ELSE IF Len(line) < 7 THEN [acc EXCEPT !.raised = "IndexError"]
    ELSE IF Py(line, 6) = "encrypted-password" THEN
        IF Len(line) < 8 THEN [acc EXCEPT !.raised = "IndexError"]
        ELSE [acc EXCEPT !.password = strip(Py(line, 7), {"'"}), !.has_password = TRUE]
    ELSE IF Py(line, 5) = "level" THEN
        [acc EXCEPT !.level = IF strip(Py(line, 6), {"'"}) = "admin" THEN 15 ELSE 0,
                    !.has_level = TRUE]
    ELSE IF Len(line) = 10 /\ Py(line, 8) = "key" THEN
        [acc EXCEPT !.sshkeys = Append(@, strip(Py(line, 9), {"'"}))]
    ELSE acc

RECURSIVE scan_lines(_, _, _)
scan_lines(acc, lines, i) ==
    IF i > Len(lines) THEN acc
    ELSE scan_lines(scan_line(acc, lines[i]), lines, i + 1)

\* for line in [x for x in user_conf if user in x]
user_lines(conf, user) == SelectSeq(conf, LAMBDA x : InList(user, x))

\* One pass of the outer loop body for user.
scan_user(acc, conf, user) ==
    LET a == scan_lines([acc EXCEPT !.sshkeys = <<>>], user_lines(conf, user), 1)
    IN  IF a.raised # "" THEN a
        ELSE IF ~a.has_level \/ ~a.has_password
        THEN [a EXCEPT !.raised = "UnboundLocalError"]
        ELSE [a EXCEPT !.user_auth =
                (user :> [level |-> a.level, password |-> a.password,
                          sshkeys |-> a.sshkeys]) @@ @]

RECURSIVE scan_users(_, _, _, _)
scan_users(acc, conf, user_name, i) ==
    IF i > Len(user_name) \/ acc.raised # "" THEN acc
    ELSE scan_users(scan_user(acc, conf, user_name[i]), conf, user_name, i + 1)

\* set([x[4] for x in user_conf])
user_name_set(conf) == {Py(conf[i], 4) : i \in 1..Len(conf)}

\* list(set(...)): the orders in which a set may be iterated
ListsOfSet(S) ==
    {f \in [1..Cardinality(S) -> S] : \A i, j \in DOMAIN f : f[i] = f[j] => i = j}

\* the loop of get_users over user_name, the list that list(set(...)) produced
get_users(conf, user_name) ==
    LET acc0 == [password |-> "", has_password |-> FALSE, level |-> 0,
                 has_level |-> FALSE, sshkeys |-> <<>>, raised |-> "",
                 user_auth |-> <<>>]
        acc == scan_users(acc0, conf, user_name, 1)
    IN  IF acc.raised # "" THEN Raise("get_users", acc.raised)
        ELSE Return("get_users", acc.user_auth)

GetUsers ==
    /\ ret.fn = ""
    /\ LET conf == user_conf(split(_send_command("show configuration commands"), "\n"))
       IN  IF \E i \in 1..Len(conf) : Len(conf[i]) < 5
           THEN ret' = Raise("get_users", "IndexError")
           ELSE \E user_name \in ListsOfSet(user_name_set(conf)) :
                    ret' = get_users(conf, user_name)
    /\ UNCHANGED <<channel, conf_tree, arg, _new_config, _device>>

\* ---- inputs: 'show configuration commands' dumps of at most MaxUserLines
\* distinct lines
MaxUserLines == 5

PasswordLine(u, p) ==
    "set system login user " \o u \o " authentication encrypted-password '" \o p \o "'"

LevelLine(u, l) == "set system login user " \o u \o " level '" \o l \o "'"

KeyLine(u, id, k) ==
    "set system login user " \o u \o " authentication public-keys " \o id
        \o " key '" \o k \o "'"

UserDumpLines ==
    {PasswordLine("al", "X"), PasswordLine("bob", "Y"),
     LevelLine("al", "admin"), LevelLine("bob", "operator"),
     KeyLine("al", "bob", "KA"), KeyLine("bob", "b@h", "KB"),
     "set system login banner"}

UserDumps ==
    {JoinLines(ls) \o "\n" :
        ls \in {f \in SeqsOf(UserDumpLines, 0, MaxUserLines) :
                    \A i, j \in DOMAIN f : f[i] = f[j] => i = j}}

InitUsers ==
    /\ channel \in {[c \in {"show configuration commands"} |-> d] : d \in UserDumps}
    /\ conf_tree = <<>>
    /\ arg = ""
    /\ ret = NoCall
    /\ _new_config = None
    /\ _device = <<>>

NextUsers == GetUsers

SpecUsers == InitUsers /\ [][NextUsers]_vars

\* ---- claims about get_users
DumpConf == user_conf(split(channel["show configuration commands"], "\n"))

\* the usernames of a dump, and a user's own lines: those whose username position
\* holds the name
UsersOf(conf) == {Py(conf[i], 4) : i \in {j \in 1..Len(conf) : Len(conf[j]) >= 5}}

OwnLines(conf, u) == SelectSeq(conf, LAMBDA x : Len(x) >= 5 /\ Py(x, 4) = u)

OwnPasswordLines(conf, u) ==
    SelectSeq(OwnLines(conf, u), LAMBDA x : Len(x) >= 8 /\ Py(x, 6) = "encrypted-password")

OwnLevelLines(conf, u) ==
    SelectSeq(OwnLines(conf, u), LAMBDA x : Len(x) >= 7 /\ Py(x, 5) = "level")

OwnKeyLines(conf, u) ==
    SelectSeq(OwnLines(conf, u), LAMBDA x : Len(x) = 10 /\ Py(x, 8) = "key")

\* C2: a username whose own lines never set an encrypted password, or never set a
\* level, makes get_users fail, whatever the other users and the processing order.
C2_MissingFieldFails ==
    Called("get_users") =>
        LET conf == DumpConf
        IN  \A u \in UsersOf(conf) :
                (Len(OwnPasswordLines(conf, u)) = 0 \/ Len(OwnLevelLines(conf, u)) = 0)
                    => ret.raised # ""

\* every login line is a line of some user, and each user sets each of password
\* and level once
EachFieldOnce(conf) ==
    /\ \A i \in 1..Len(conf) : Len(conf[i]) >= 7
    /\ \A u \in UsersOf(conf) :
        Len(OwnPasswordLines(conf, u)) = 1 /\ Len(OwnLevelLines(conf, u)) = 1

\* C5: one record per distinct username, each built only from that user's own
\* lines (level 15 iff the level value is admin, else 0; the encrypted password;
\* the user's SSH keys), whatever the order of the lines.
C5_OwnLinesOnly ==
    Called("get_users") =>
        LET conf == DumpConf
        IN  EachFieldOnce(conf) =>
            /\ ret.raised = ""
            /\ DOMAIN ret.value = UsersOf(conf)
            /\ \A u \in UsersOf(conf) :
                LET keys == OwnKeyLines(conf, u)
                IN  /\ ret.value[u].level =
                         (IF Py(OwnLevelLines(conf, u)[1], 6) = "'admin'" THEN 15 ELSE 0)
                    /\ "'" \o ret.value[u].password \o "'"
                         = Py(OwnPasswordLines(conf, u)[1], 7)
                    /\ Len(ret.value[u].sshkeys) = Len(keys)
                    /\ \A k \in 1..Len(keys) :
                         "'" \o ret.value[u].sshkeys[k] \o "'" = Py(keys[k], 9)

(***************************************************************************)
(* BGP summary extractor: VyOSDriver.get_bgp_neighbors                     *)
(***************************************************************************)
\* whether sub occurs in s at position i
At(s, i, sub) ==
    i >= 1 /\ i + Len(sub) - 1 <= Len(s) /\ SubSeq(s, i, i + Len(sub) - 1) = sub

\* end of a match of \d+\.\d+\.\d+\.\d+ begun at q, or 0 when there is none
MatchIPv4(s, q) ==
    LET e1 == RunEnd(s, q, Digits)
        e2 == RunEnd(s, e1 + 2, Digits)
        e3 == RunEnd(s, e2 + 2, Digits)
        e4 == RunEnd(s, e3 + 2, Digits)
    IN  IF /\ e1 >= q /\ At(s, e1 + 1, ".")
           /\ e2 >= e1 + 2 /\ At(s, e2 + 1, ".")
           /\ e3 >= e2 + 2 /\ At(s, e3 + 1, ".")
           /\ e4 >= e3 + 2
        THEN e4 ELSE 0

Max(S) == CHOOSE x \in S : \A y \in S : x >= y

Min(S) == CHOOSE x \in S : \A y \in S : x <= y

\* re.search(".* router identifier (\d+\.\d+\.\d+\.\d+), local AS number (\d+)", s):
\* the two groups, or <<>> for None.  The greedy .* makes the last place win.
re_search_router_id(s) ==
    LET lead == " router identifier "
        mid == ", local AS number "
        ok(p) == LET e == MatchIPv4(s, p + Len(lead))
                 IN  /\ At(s, p, lead) /\ e > 0 /\ At(s, e + 1, mid)
                     /\ RunEnd(s, e + 1 + Len(mid), Digits) >= e + 1 + Len(mid)
        ps == {p \in 1..Len(s) : ok(p)}
    IN  IF ps = {} THEN <<>>
        ELSE LET p == Max(ps)
                 e == MatchIPv4(s, p + Len(lead))
                 a == e + 1 + Len(mid)
             IN  <<SubSeq(s, p + Len(lead), e), SubSeq(s, a, RunEnd(s, a, Digits))>>

\* re.search("remote router ID (\d+\.\d+\.\d+\.\d+).*", s): group 1, or <<>>
re_search_remote_rid(s) ==
    LET lead == "remote router ID "
        ps == {p \in 1..Len(s) : At(s, p, lead) /\ MatchIPv4(s, p + Len(lead)) > 0}
    IN  IF ps = {} THEN <<>>
        ELSE LET p == Min(ps)
             IN  <<SubSeq(s, p + Len(lead), MatchIPv4(s, p + Len(lead)))>>

\* re.search("(\d+) accepted prefixes", s): group 1, or <<>>
re_search_accepted(s) ==
    LET tail == " accepted prefixes"
        ps == {p \in 1..Len(s) :
                 IsDigit(Char(s, p)) /\ At(s, RunEnd(s, p, Digits) + 1, tail)}
    IN  IF ps = {} THEN <<>>
        ELSE <<SubSeq(s, Min(ps), RunEnd(s, Min(ps), Digits))>>

\* output[a:-b] of a list
Slice(list, a, b) == SubSeq(list, a + 1, Len(list) - b)

\* bgp_info = [i.strip() for i in output[6:-3] if i is not ""]
bgp_info(output) ==
    LET kept == SelectSeq(Slice(output, 6, 3), LAMBDA i : i # "")
    IN  [k \in 1..Len(kept) |-> strip(kept[k], Whitespace)]

\* One pass of the loop body of get_bgp_neighbors over the row i.
bgp_row(acc, i, local_as) ==
    LET f == split_ws(i)
        peer_id == Py(f, 0)
        bgp_version == Py(f, 1)
        remote_as == Py(f, 2)
        up_time == Py(f, 8)
        state_prefix == Py(f, 9)
        is_enabled == ~Contains(state_prefix, "(Admin)")
        is_up == IsIntLiteral(state_prefix)
        bgp_detail == _send_command("show ip bgp neighbors " \o peer_id)
        match_rid == re_search_remote_rid(bgp_detail)
        match_prefix_accepted == re_search_accepted(bgp_detail)
        uptime == _bgp_time_conversion(up_time)
    IN  IF acc.raised # "" THEN acc
        ELSE IF Len(f) # 10 THEN [acc EXCEPT !.raised = "ValueError"]
        ELSE IF bgp_version \notin {"4", "6"} THEN [acc EXCEPT !.raised = "ValueError"]
        ELSE IF Len(match_rid) = 0 \/ Len(match_prefix_accepted) = 0
        THEN [acc EXCEPT !.raised = "AttributeError"]
        ELSE IF uptime.raised # "" THEN [acc EXCEPT !.raised = uptime.raised]
        ELSE IF ~IsIntLiteral(remote_as) THEN [acc EXCEPT !.raised = "ValueError"]
        ELSE [acc EXCEPT !.peers =
                (peer_id :>
                    [description |-> "",
                     is_enabled |-> is_enabled,
                     local_as |-> local_as,
                     is_up |-> is_up,
                     remote_id |-> match_rid[1],
                     uptime |-> uptime.value,
                     remote_as |-> int(remote_as),
                     address_family |->
                        (IF bgp_version = "4" THEN "ipv4" ELSE "ipv6") :>
                            [sent_prefixes |-> None,
                             accepted_prefixes |-> int(match_prefix_accepted[1]),
                             received_prefixes |-> None]]) @@ @]

RECURSIVE bgp_rows(_, _, _, _)
bgp_rows(acc, info, k, local_as) ==
    IF k > Len(info) THEN acc
    ELSE bgp_rows(bgp_row(acc, info[k], local_as), info, k + 1, local_as)

get_bgp_neighbors ==
    LET output == split(_send_command("show ip bgp summary"), "\n")
        match == re_search_router_id(output[1])
    IN  IF Len(match) = 0 THEN Raise("get_bgp_neighbors", "AttributeError")
        ELSE LET acc == bgp_rows([peers |-> <<>>, raised |-> ""],
                                 bgp_info(output), 1, int(match[2]))
             IN  IF acc.raised # "" THEN Raise("get_bgp_neighbors", acc.raised)
                 ELSE Return("get_bgp_neighbors",
                             [global |-> [router_id |-> match[1], peers |-> acc.peers]])

GetBgpNeighbors ==
    /\ ret.fn = ""
    /\ ret' = get_bgp_neighbors
    /\ UNCHANGED <<channel, conf_tree, arg, _new_config, _device>>

\* ---- inputs: 'show ip bgp summary' texts with at most MaxBgpRows neighbor rows
MaxBgpRows == 2

BgpHeaders ==
    {"BGP router identifier 10.0.0.2, local AS number 64520", "No BGP process"}

AdminDownRow == "10.0.0.4 4 64522 0 0 0 0 0 never Idle (Admin)"

GoodBgpRows ==
    {"10.0.0.1     4 64519 7 7 0 0 0 01:02:03        1",
     "10.0.0.3 4 64521 0 0 0 0 0 never Active",
     "10.0.0.7 6 64525 1 1 0 0 0 1w2d03h 0"}

BgpRows ==
    GoodBgpRows \cup
    {AdminDownRow,
     "10.0.0.5 4 64523 9 9 0 0 0 4d23h40m 2",
     "10.0.0.6 5 64524 0 0 0 0 0 never Idle",
     ""}

BgpPeerIds == {"10.0.0.1", "10.0.0.3", "10.0.0.4", "10.0.0.5", "10.0.0.6", "10.0.0.7"}

GoodBgpDetail == "BGP version 4, remote router ID 10.9.9.9\n 1 accepted prefixes\n"

BgpDetails ==
    {GoodBgpDetail, "BGP version 4, remote router ID 10.9.9.9\n", " 1 accepted prefixes\n"}

BgpSummary(header, rows) ==
    JoinLines(<<header, "IPv4 Unicast", "RIB entries 3", "Peers 2", "",
                "Neighbor V AS MsgRcvd MsgSent TblVer InQ OutQ Up/Down State/PfxRcd">>
              \o rows \o <<"", "Total number of neighbors 2", "">>)

BgpChannel(header, rows, detail) ==
    [c \in {"show ip bgp summary"} \cup {"show ip bgp neighbors " \o p : p \in BgpPeerIds}
        |-> IF c = "show ip bgp summary" THEN BgpSummary(header, rows) ELSE detail]

InitBgp ==
    /\ channel \in {BgpChannel(h, rows, d) :
                      h \in BgpHeaders, rows \in SeqsOf(BgpRows, 0, MaxBgpRows),
                      d \in BgpDetails}
    /\ conf_tree = <<>>
    /\ arg = ""
    /\ ret = NoCall
    /\ _new_config = None
    /\ _device = <<>>

NextBgp == GetBgpNeighbors

SpecBgp == InitBgp /\ [][NextBgp]_vars

\* ---- claims about get_bgp_neighbors
\* the neighbor rows of the summary, and the State/PfxRcd column of a row: what
\* follows its ninth field
SummaryRows ==
    SelectSeq(Slice(split(channel["show ip bgp summary"], "\n"), 6, 3), LAMBDA i : i # "")

RECURSIVE JoinWords(_)
JoinWords(ws) ==
    IF Len(ws) = 0 THEN ""
    ELSE IF Len(ws) = 1 THEN ws[1]
    ELSE ws[1] \o " " \o JoinWords(Tail(ws))

StateColumn(row) == JoinWords(SubSeq(split_ws(row), 10, Len(split_ws(row))))

\* C3: every row returned as a peer has is_up true exactly when its State/PfxRcd
\* column parses as an integer and is_enabled false exactly when the column
\* carries "(Admin)"; an administratively disabled peer ("Idle (Admin)") among
\* otherwise well-formed rows is returned with is_enabled = false, is_up = false.
C3_AdminDownReturned ==
    Called("get_bgp_neighbors") =>
        LET rows == SummaryRows
            wellformed ==
                /\ channel["show ip bgp summary"] =
                     BgpSummary("BGP router identifier 10.0.0.2, local AS number 64520", rows)
                /\ \A k \in 1..Len(rows) : rows[k] \in GoodBgpRows \cup {AdminDownRow}
                /\ \A p \in BgpPeerIds : channel["show ip bgp neighbors " \o p] = GoodBgpDetail
        IN  /\ ret.raised = "" =>
                \A k \in 1..Len(rows) :
                    LET peer == ret.value.global.peers[split_ws(rows[k])[1]]
                    IN  /\ peer.is_up <=> IsIntLiteral(StateColumn(rows[k]))
                        /\ ~peer.is_enabled <=> Contains(StateColumn(rows[k]), "(Admin)")
            /\ wellformed => ret.raised = ""

(***************************************************************************)
(* Interface-counters extractor: VyOSDriver.get_interfaces_counters        *)
(***************************************************************************)
\* re.findall("(\S+): <.*", s) from position i on: a maximal run of non-space
\* characters that ends in ":" and is followed by " <"; .* runs to the line's end
RECURSIVE re_findall_interfaces(_, _)
re_findall_interfaces(s, i) ==
    IF i > Len(s) THEN <<>>
    ELSE IF IsSpace(Char(s, i)) THEN re_findall_interfaces(s, i + 1)
    ELSE LET e == RunEndNot(s, i, Whitespace)
         IN  IF e > i /\ Char(s, e) = ":" /\ At(s, e + 1, " <")
             THEN <<SubSeq(s, i, e - 1)>>
                  \o re_findall_interfaces(s, RunEndNot(s, e + 3, {"\n"}) + 1)
             ELSE re_findall_interfaces(s, e + 1)

\* A match of "(\d+)\s+" repeated k more times begun at i: the groups so far in g;
\* yields <<groups, end>> or <<>>
RECURSIVE match_numbers(_, _, _, _)
match_numbers(s, i, k, g) ==
    LET e == RunEnd(s, i, Digits)
        w == RunEnd(s, e + 1, Whitespace)
    IN  IF e < i \/ w < e + 1 THEN <<>>
        ELSE IF k = 1 THEN <<Append(g, SubSeq(s, i, e)), w>>
        ELSE match_numbers(s, w + 1, k - 1, Append(g, SubSeq(s, i, e)))

\* re.findall("(\d+)\s+(\d+)\s+(\d+)\s+(\d+)\s+(\d+)\s+(\d+)\s+", s) from i on
RECURSIVE re_findall_count(_, _)
re_findall_count(s, i) ==
    IF i > Len(s) THEN <<>>
    ELSE LET m == match_numbers(s, i, 6, <<>>)
         IN  IF Len(m) = 0 THEN re_findall_count(s, i + 1)
             ELSE <<m[1]>> \o re_findall_count(s, m[2] + 1)

\* a pairing that is off by one row: interfaces[(j + 1) / 2]
pair_index_mut(j) == (j + 1) \div 2

\* interfaces[j / 2]: the index (Python 2 integer division)
pair_index(j) == j \div 2

\* One pass of the loop body over the row i, with the loop's variables in acc.
counters_row(acc, i, interfaces) ==
    IF acc.raised # "" THEN acc
    ELSE IF acc.j % 2 = 0 THEN
        [acc EXCEPT !.rx_errors = Py(i, 2), !.rx_discards = Py(i, 3),
                    !.rx_octets = Py(i, 0), !.rx_multicast_packets = Py(i, 5),
                    !.j = @ + 1]
    ELSE IF pair_index(acc.j) >= Len(interfaces) THEN [acc EXCEPT !.raised = "IndexError"]
    ELSE [acc EXCEPT
            !.counters =
                (Py(interfaces, pair_index(acc.j)) :>
                    [tx_errors |-> Py(i, 2),
                     tx_discards |-> Py(i, 3),
                     tx_octets |-> Py(i, 0),
                     tx_unicast_packets |-> None,
                     tx_multicast_packets |-> None,
                     tx_broadcast_packets |-> None,
                     rx_errors |-> acc.rx_errors,
                     rx_discards |-> acc.rx_discards,
                     rx_octets |-> acc.rx_octets,
                     rx_unicast_packets |-> None,
                     rx_multicast_packets |-> acc.rx_multicast_packets,
                     rx_broadcast_packets |-> None]) @@ @,
            !.j = @ + 1]

RECURSIVE counters_rows(_, _, _, _)
counters_rows(acc, count, k, interfaces) ==
    IF k > Len(count) THEN acc
    ELSE counters_rows(counters_row(acc, count[k], interfaces), count, k + 1, interfaces)

get_interfaces_counters ==
    LET output == _send_command("show interfaces detail")
        interfaces == re_findall_interfaces(output, 1)
        count == re_findall_count(output, 1)
        acc == counters_rows([counters |-> <<>>, j |-> 0, raised |-> "",
                              rx_errors |-> "", rx_discards |-> "", rx_octets |-> "",
                              rx_multicast_packets |-> ""],
                             count, 1, interfaces)
    IN  IF acc.raised # "" THEN Raise("get_interfaces_counters", acc.raised)
        ELSE Return("get_interfaces_counters", acc.counters)

GetInterfacesCounters ==
    /\ ret.fn = ""
    /\ ret' = get_interfaces_counters
    /\ UNCHANGED <<channel, conf_tree, arg, _new_config, _device>>

\* ---- inputs: 'show interfaces detail' texts of at most MaxDetailLines lines;
\* the n-th header line is that of interface eth<n>
MaxDetailLines == 6

DetailKinds == {"header", "inet", "row1", "row2"}

DigitStr(n) == CHOOSE c \in Digits : DigitVal(c) = n

DetailLine(kinds, k) ==
    CASE kinds[k] = "header" ->
            "eth" \o DigitStr(Cardinality({h \in 1..(k - 1) : kinds[h] = "header"}))
                \o ": <UP>"
      [] kinds[k] = "inet" -> " mtu 9"
      [] kinds[k] = "row1" -> " 100 2 0 1 0 3"
      [] kinds[k] = "row2" -> " 200 4 5 6 0 7"

DetailText(kinds) ==
    JoinLines([k \in 1..Len(kinds) |-> DetailLine(kinds, k)] \o <<"">>)

InitCounters ==
    /\ channel \in {[c \in {"show interfaces detail"} |-> DetailText(kinds)] :
                      kinds \in SeqsOf(DetailKinds, 0, MaxDetailLines)}
    /\ conf_tree = <<>>
    /\ arg = ""
    /\ ret = NoCall
    /\ _new_config = None
    /\ _device = <<>>

NextCounters == GetInterfacesCounters

SpecCounters == InitCounters /\ [][NextCounters]_vars

\* ---- claims about get_interfaces_counters
\* the interface header lines and the six-number rows of the output
HeaderNames == re_findall_interfaces(channel["show interfaces detail"], 1)

StatRows == re_findall_count(channel["show interfaces detail"], 1)

\* C6: rows are paired with interface names by position: the entry of the n-th
\* header line has its rx_* fields from row 2n and its tx_* fields from row 2n+1
\* (0-based), and every complete pair yields the entry of the n-th header line.
C6_PositionalPairing ==
    (Called("get_interfaces_counters") /\ ret.raised = "") =>
        LET names == HeaderNames
            rows == StatRows
        IN  \A n \in 0..(Len(names) - 1) :
                /\ 2 * n + 1 < Len(rows) => Py(names, n) \in DOMAIN ret.value
                /\ Py(names, n) \in DOMAIN ret.value =>
                    LET e == ret.value[Py(names, n)]
                        rx == Py(rows, 2 * n)
                        tx == Py(rows, 2 * n + 1)
                    IN  /\ e.rx_octets = Py(rx, 0) /\ e.rx_errors = Py(rx, 2)
                        /\ e.rx_discards = Py(rx, 3) /\ e.rx_multicast_packets = Py(rx, 5)
                        /\ e.tx_octets = Py(tx, 0) /\ e.tx_errors = Py(tx, 2)
                        /\ e.tx_discards = Py(tx, 3)

\* two interfaces, each header followed by its RX row and its TX row
C6_Witness ==
    /\ Called("get_interfaces_counters") /\ ret.raised = ""
    /\ channel["show interfaces detail"]
         = DetailText(<<"header", "row1", "row2", "header", "row2", "row1">>)
    /\ DOMAIN ret.value = {"eth0", "eth1"}
    /\ ret.value["eth0"].rx_octets = "100" /\ ret.value["eth0"].tx_octets = "200"
    /\ ret.value["eth1"].rx_octets = "200" /\ ret.value["eth1"].tx_octets = "100"

\* C7: no partial result: the call fails or returns an entry for every interface
\* header line of the output.
C7_NoPartialResult ==
    (Called("get_interfaces_counters") /\ ret.raised = "") =>
        LET names == HeaderNames
        IN  \A n \in 1..Len(names) : names[n] \in DOMAIN ret.value

(***************************************************************************)
(* VyOSDriver.get_interfaces                                               *)
(***************************************************************************)
\* re: [:\-\d/\.]
AddrChars == {":", "-", "/", "."} \cup Digits

\* re: [uAD]
StateChars == {"u", "A", "D"}

\* re.findall("(\S+)\s+[:\-\d/\.]+\s+([uAD])/([uAD])", s) from i on.  Each of the
\* four runs is delimited by the class of the character that follows it, so
\* the match begun at a place is the one of the maximal runs, and a failed
\* match fails from every later place of the same \S+ run.
RECURSIVE re_findall_iface_state(_, _)
re_findall_iface_state(s, i) ==
    IF i > Len(s) THEN <<>>
    ELSE IF IsSpace(Char(s, i)) THEN re_findall_iface_state(s, i + 1)
    ELSE LET e == RunEndNot(s, i, Whitespace)
             w == RunEnd(s, e + 1, Whitespace)
             a == RunEnd(s, w + 1, AddrChars)
             v == RunEnd(s, a + 1, Whitespace)
         IN  IF /\ w > e /\ a > w /\ v > a /\ v + 3 <= Len(s)
                /\ Char(s, v + 1) \in StateChars
                /\ Char(s, v + 2) = "/"
                /\ Char(s, v + 3) \in StateChars
             THEN <<<<SubSeq(s, i, e), Char(s, v + 1), Char(s, v + 3)>>>>
                  \o re_findall_iface_state(s, v + 4)
             ELSE re_findall_iface_state(s, e + 1)

\* a mapping that takes the indicators in the other order
iface_state_mut(match) ==
    [iface_name \in {match[k][1] : k \in 1..Len(match)} |->
        LET k == Max({h \in 1..Len(match) : match[h][1] = iface_name})
        IN  [State |-> match[k][3], Link |-> match[k][2]]]

\* iface_state = {iface_name: {"State": state, "Link": link} for ... in match}:
\* a later tuple of the same name replaces an earlier one
iface_state(match) ==
    [iface_name \in {match[k][1] : k \in 1..Len(match)} |->
        LET k == Max({h \in 1..Len(match) : match[h][1] = iface_name})
        IN  [State |-> match[k][2], Link |-> match[k][3]]]

_get_value(key, target_dict) ==
    IF key \in DOMAIN target_dict THEN target_dict[key] ELSE None

\* The inner loop over the names of one interface type; acc holds iface_dict.
ifaces_of_type(acc, ifaces_detail, state) ==
    IF acc.raised # "" THEN acc
    ELSE IF \E iface_name \in DOMAIN ifaces_detail : iface_name \notin DOMAIN state
    THEN [acc EXCEPT !.raised = "KeyError"]
    ELSE [acc EXCEPT
            !.iface_dict =
                [iface_name \in DOMAIN ifaces_detail |->
                    [is_up |-> state[iface_name].Link = "u",
                     is_enabled |-> state[iface_name].State = "u",
                     description |-> _get_value("description", ifaces_detail[iface_name]),
                     last_flapped |-> -1,
                     speed |-> _get_value("speed", ifaces_detail[iface_name]),
                     mac_address |-> _get_value("hw-id", ifaces_detail[iface_name])]]
                @@ @]

\* The outer loop, over the interface types in the order the dict yields them.
RECURSIVE ifaces_of_types(_, _, _, _, _)
ifaces_of_types(acc, types, k, config, state) ==
    IF k > Len(types) THEN acc
    ELSE ifaces_of_types(ifaces_of_type(acc, config["interfaces"][types[k]], state),
                         types, k + 1, config, state)

get_interfaces(config, types) ==
    LET output_iface == _send_command("show interfaces")
        match == re_findall_iface_state(output_iface, 1)
        state == iface_state(match)
        acc == ifaces_of_types([iface_dict |-> <<>>, raised |-> ""],
                               types, 1, config, state)
    IN  IF acc.raised # "" THEN Raise("get_interfaces", acc.raised)
        ELSE Return("get_interfaces", acc.iface_dict)

GetInterfaces ==
    /\ ret.fn = ""
    /\ IF "interfaces" \notin DOMAIN conf_tree
       THEN ret' = Raise("get_interfaces", "KeyError")
       ELSE \E types \in ListsOfSet(DOMAIN conf_tree["interfaces"]) :
                ret' = get_interfaces(conf_tree, types)
    /\ UNCHANGED <<channel, conf_tree, arg, _new_config, _device>>

\* ---- inputs: 'show interfaces' tables of the interfaces eth0 .. eth<MaxIfaces-1>
\* and lo, and configuration trees over the same names
MaxIfaces == 2

IfaceNames == {"eth" \o DigitStr(k) : k \in 0..(MaxIfaces - 1)}

RowKinds == {"none", "up", "nolink", "admin", "v6", "multi"}

\* the lines of the table for one interface
IfaceRow(name, kind) ==
    CASE kind = "none" -> <<>>
      [] kind = "up" -> <<name \o "  1.1.1.1/8  u/u">>
      [] kind = "nolink" -> <<name \o "  -  u/D">>
      [] kind = "admin" -> <<name \o "  1.1.1.1/8  A/D  wan">>
      [] kind = "v6" -> <<name \o "  fd00::1/64  u/u">>
      [] kind = "multi" -> <<name \o "  1.1.1.1/8  u/u", "      1.1.1.2/8">>

RECURSIVE IfaceRows(_, _)
IfaceRows(kinds, k) ==
    IF k >= MaxIfaces THEN <<>>
    ELSE IfaceRow("eth" \o DigitStr(k), kinds["eth" \o DigitStr(k)]) \o IfaceRows(kinds, k + 1)

ShowInterfaces(kinds, lo) ==
    JoinLines(<<"Interface  IP Address  S/L  Description",
                "---------  ----------  ---  -----------">>
              \o IfaceRows(kinds, 0)
              \o (IF lo THEN <<"lo  127.0.0.1/8  u/u", "    ::1/128">> ELSE <<>>)
              \o <<"">>)

ConfKinds == {"none", "bare", "full"}

EthernetConf(kinds) ==
    [name \in {n \in IfaceNames : kinds[n] # "none"} |->
        IF kinds[name] = "bare" THEN <<>>
        ELSE [k \in {"description", "hw-id", "speed"} |->
                CASE k = "description" -> "wan"
                  [] k = "hw-id" -> "00:50:56:97:af:b1"
                  [] k = "speed" -> "auto"]]

ConfTrees ==
    {[t \in {"interfaces", "system"} |->
        IF t = "system" THEN <<>>
        ELSE IF lo THEN [ty \in {"ethernet", "loopback"} |->
                            IF ty = "ethernet" THEN EthernetConf(kinds)
                            ELSE [n \in {"lo"} |-> <<>>]]
        ELSE [ty \in {"ethernet"} |-> EthernetConf(kinds)]] :
            kinds \in [IfaceNames -> ConfKinds], lo \in BOOLEAN}
    \cup {[t \in {"system"} |-> <<>>]}

InitInterfaces ==
    /\ channel \in {[c \in {"show interfaces"} |-> ShowInterfaces(kinds, lo)] :
                      kinds \in [IfaceNames -> RowKinds], lo \in BOOLEAN}
    /\ conf_tree \in ConfTrees
    /\ arg = ""
    /\ ret = NoCall
    /\ _new_config = None
    /\ _device = <<>>

NextInterfaces == GetInterfaces

SpecInterfaces == InitInterfaces /\ [][NextInterfaces]_vars

\* ---- claims about get_interfaces
\* the interface names of the configuration tree
ConfigNames ==
    UNION {DOMAIN conf_tree["interfaces"][ty] : ty \in DOMAIN conf_tree["interfaces"]}

\* whether the words of a table line are a name, an address made of the
\* characters of an IPv4 address (or "-") and the S/L indicators
IsStateRow(words) ==
    /\ Len(words) >= 3
    /\ \A c \in CharSet(words[2]) : c \in AddrChars
    /\ Len(words[3]) >= 3
    /\ Char(words[3], 1) \in StateChars
    /\ Char(words[3], 2) = "/"
    /\ Char(words[3], 3) \in StateChars

\* C8: one record per interface name of the configuration tree, is_up iff the
\* Link indicator of the table row of that name is "u" and is_enabled iff its
\* State indicator is "u"; a name without a row fails the call with KeyError.
C8_OneRecordPerName ==
    (Called("get_interfaces") /\ "interfaces" \in DOMAIN conf_tree) =>
        LET lines == split(channel["show interfaces"], "\n")
            words == [k \in 1..Len(lines) |-> split_ws(lines[k])]
            rows(name) == {k \in 1..Len(lines) :
                             IsStateRow(words[k]) /\ words[k][1] = name}
        IN  IF \A name \in ConfigNames : rows(name) # {}
            THEN /\ ret.raised = ""
                 /\ DOMAIN ret.value = ConfigNames
                 /\ \A name \in ConfigNames : \A k \in rows(name) :
                        /\ ret.value[name].is_up = (Char(words[k][3], 3) = "u")
                        /\ ret.value[name].is_enabled = (Char(words[k][3], 1) = "u")
            ELSE ret.raised = "KeyError" /\ ret.value = None

\* eth0 up, eth1 enabled with its link down, both and lo in the configuration
C8_Witness ==
    /\ Called("get_interfaces") /\ ret.raised = ""
    /\ DOMAIN ret.value = {"eth0", "eth1", "lo"}
    /\ ret.value["eth0"].is_up /\ ret.value["eth0"].is_enabled
    /\ ~ret.value["eth1"].is_up /\ ret.value["eth1"].is_enabled
    /\ DOMAIN conf_tree["interfaces"]["ethernet"]["eth0"] = {}
    /\ ret.value["eth0"].description = None
    /\ "hw-id" \in DOMAIN conf_tree["interfaces"]["ethernet"]["eth1"]
    /\ ret.value["eth1"].mac_address = "00:50:56:97:af:b1"

(***************************************************************************)
(* VyOSDriver.ping                                                         *)
(***************************************************************************)
\* "%d" % n
RECURSIVE format_d(_)
format_d(n) ==
    IF n < 0 THEN "-" \o format_d(0 - n)
    ELSE IF n < 10 THEN DigitStr(n)
    ELSE format_d(n \div 10) \o DigitStr(n % 10)

\* the command line that ping builds
ping_command(destination, source, ttl, timeout, size, count) ==
    "ping " \o destination \o " "
        \o "ttl " \o format_d(ttl) \o " "
        \o "deadline " \o format_d(timeout) \o " "
        \o "size " \o format_d(size) \o " "
        \o "count " \o format_d(count) \o " "
        \o (IF source # "" THEN "interface " \o source \o " " ELSE "")

\* an index one place nearer the end of the list
from_end_mut(list, n) == list[Len(list) - n + 2]

\* list[-n]
from_end(list, n) == list[Len(list) - n + 1]

\* re: [\d\.]
RttChars == Digits \cup {"."}

\* re.search("([\d\.]+)/([\d\.]+)/([\d\.]+)/[\d\.]+", s) from i on: the groups
\* 1 and 2 of the leftmost match, or <<>> for None.  A run of [\d\.] is followed
\* by a character outside the class, so a match takes whole runs and begins at
\* the start of one.
RECURSIVE re_search_rtt(_, _)
re_search_rtt(s, i) ==
    IF i > Len(s) THEN <<>>
    ELSE IF Char(s, i) \notin RttChars THEN re_search_rtt(s, i + 1)
    ELSE LET e1 == RunEnd(s, i, RttChars)
             e2 == RunEnd(s, e1 + 2, RttChars)
             e3 == RunEnd(s, e2 + 2, RttChars)
             e4 == RunEnd(s, e3 + 2, RttChars)
         IN  IF /\ At(s, e1 + 1, "/") /\ e2 >= e1 + 2
                /\ At(s, e2 + 1, "/") /\ e3 >= e2 + 2
                /\ At(s, e3 + 1, "/") /\ e4 >= e3 + 2
             THEN <<SubSeq(s, i, e1), SubSeq(s, e1 + 2, e2)>>
             ELSE re_search_rtt(s, e1 + 1)

\* whether float(s) succeeds, for s made of digits and dots
IsFloatLiteral(s) ==
    /\ \E i \in 1..Len(s) : IsDigit(Char(s, i))
    /\ Cardinality({i \in 1..Len(s) : Char(s, i) = "."}) <= 1

\* float(s): the decimal number num / 10^exp, its fraction without trailing zeros
float(s) ==
    LET parts == split(s, ".")
        frac == IF Len(parts) = 2 THEN parts[2] ELSE ""
        n == Max({0} \cup {i \in 1..Len(frac) : Char(frac, i) # "0"})
    IN  [py |-> "float", num |-> DecVal(parts[1] \o SubSeq(frac, 1, n)), exp |-> n]

ping(destination, source, ttl, timeout, size, count) ==
    LET command == ping_command(destination, source, ttl, timeout, size, count)
        output == _send_command(command)[1]
        err == _send_command(command)[2]
        lines == split(output, "\n")
        packet_info == split_ws(from_end(lines, 3))
        sent == int(Py(packet_info, 0))
        received == int(Py(packet_info, 3))
        lost == sent - received
        rtt_info == from_end(lines, 2)
        match == re_search_rtt(rtt_info, 1)
        rtt_min == IF match # <<>> THEN float(match[1]) ELSE None
        rtt_avg == IF match # <<>> THEN float(match[2]) ELSE None
    IN  IF err # "" THEN Return("ping", [k \in {"error"} |-> err])
        ELSE IF Len(lines) < 3 THEN Raise("ping", "IndexError")
        ELSE IF Len(packet_info) < 1 THEN Raise("ping", "IndexError")
        ELSE IF ~IsIntLiteral(Py(packet_info, 0)) THEN Raise("ping", "ValueError")
        ELSE IF Len(packet_info) < 4 THEN Raise("ping", "IndexError")
        ELSE IF ~IsIntLiteral(Py(packet_info, 3)) THEN Raise("ping", "ValueError")
        ELSE IF match # <<>> /\ ~IsFloatLiteral(match[1]) THEN Raise("ping", "ValueError")
        ELSE IF match # <<>> /\ ~IsFloatLiteral(match[2]) THEN Raise("ping", "ValueError")
        ELSE Return("ping",
                [k \in {"success"} |->
                    [probes_sent |-> sent,
                     packet_loss |-> lost,
                     rtt_min |-> rtt_min,
                     rtt_avg |-> rtt_avg,
                     rtt_stdev |-> None,
                     results |-> [ip_address |-> destination, rtt |-> rtt_avg]]])

\* the default arguments of ping
PingDefaults == [ttl |-> 255, timeout |-> 2, size |-> 100, count |-> 5]

Ping ==
    /\ ret.fn = ""
    /\ ret' = ping(arg.destination, arg.source, PingDefaults.ttl, PingDefaults.timeout,
                   PingDefaults.size, PingDefaults.count)
    /\ UNCHANGED <<channel, conf_tree, arg, _new_config, _device>>

\* ---- inputs: the two streams of one ping run: reports of at most MaxProbes
\* probes as iputils prints them, texts that are no report, and error texts
MaxProbes == 2

PingTails ==
    {"rtt min/avg/max/mdev = 0.307/0.396/0.480/0.061 ms",
     "rtt min/avg/max/mdev = 12.50/20/30.25/1.0 ms, pipe 2",
     "pipe 3",
     ""}

PingStats(t, r, errors) ==
    format_d(t) \o " packets transmitted, " \o format_d(r) \o " received, "
        \o (IF errors THEN "+1 errors, " ELSE "")
        \o (IF t = 0 THEN "" ELSE format_d(((t - r) * 100) \div t) \o "% packet loss, ")
        \o "time 3997ms"

PingReport(t, r, errors, tail) ==
    JoinLines(<<"PING 10.0.0.1 (10.0.0.1) 100(128) bytes of data.", "",
                "--- 10.0.0.1 ping statistics ---",
                PingStats(t, r, errors), tail, "">>)

PingStdouts ==
    UNION {{PingReport(t, r, errors, tail) :
                r \in 0..t, errors \in BOOLEAN, tail \in PingTails} : t \in 0..MaxProbes}
    \cup {"", "\n", "x\ny\nz\n", "a b c d\n\n", "1 b c\n\n", "1 b c d\n\n"}

PingStderrs == {"", "ping: unknown host\n", " "}

InitPing ==
    /\ arg \in [destination : {"10.0.0.1"}, source : {"", "eth0"}]
    /\ channel \in {[c \in {ping_command(arg.destination, arg.source, PingDefaults.ttl,
                                         PingDefaults.timeout, PingDefaults.size,
                                         PingDefaults.count)} |-> <<out, err>>] :
                      out \in PingStdouts, err \in PingStderrs}
    /\ conf_tree = <<>>
    /\ ret = NoCall
    /\ _new_config = None
    /\ _device = <<>>

NextPing == Ping

SpecPing == InitPing /\ [][NextPing]_vars

\* ---- claims about ping
\* the two streams of the run
PingStreams == channel[CHOOSE c \in DOMAIN channel : TRUE]

\* the number that ends just before the place p of the line
NumberBefore(line, p) ==
    DecVal(SubSeq(line, Min({i \in 1..p : \A j \in i..(p - 1) : IsDigit(Char(line, j))}),
                  p - 1))

\* the first place of sub in the line
Place(line, sub) == Min({i \in 1..Len(line) : At(line, i, sub)})

\* C9: the result has exactly one of the keys error and success; a non-empty
\* stderr is returned verbatim under error whatever stdout holds; with an empty
\* stderr and a report on stdout, probes_sent is the transmitted count and
\* packet_loss the transmitted count less the received count of the
\* third-from-last line, and rtt_min and rtt_avg are None when the
\* second-from-last line holds no min/avg/max/mdev figures, the first two of
\* the figures otherwise.
C9_PingResult ==
    Called("ping") =>
        LET out == PingStreams[1]
            err == PingStreams[2]
            lines == split(out, "\n")
            stats == lines[Len(lines) - 2]
            trailer == lines[Len(lines) - 1]
            report == /\ Len(lines) >= 3
                      /\ Contains(stats, " packets transmitted, ")
                      /\ Contains(stats, " received")
            transmitted == NumberBefore(stats, Place(stats, " packets transmitted, "))
            received == NumberBefore(stats, Place(stats, " received"))
        IN  /\ ret.raised = "" =>
                DOMAIN ret.value = {"error"} \/ DOMAIN ret.value = {"success"}
            /\ err # "" =>
                ret.raised = "" /\ DOMAIN ret.value = {"error"} /\ ret.value["error"] = err
            /\ (err = "" /\ report) =>
                /\ ret.raised = "" /\ DOMAIN ret.value = {"success"}
                /\ ret.value["success"].probes_sent = transmitted
                /\ ret.value["success"].packet_loss = transmitted - received
                /\ ret.value["success"].rtt_stdev = None
                /\ IF Contains(trailer, " = ")
                   THEN LET figures == split(SubSeq(trailer, Place(trailer, " = ") + 3,
                                                    Len(trailer)), "/")
                        IN  /\ ret.value["success"].rtt_min = float(figures[1])
                            /\ ret.value["success"].rtt_avg = float(figures[2])
                   ELSE /\ ret.value["success"].rtt_min = None
                        /\ ret.value["success"].rtt_avg = None

\* two probes sent and one lost, and a trailer without round-trip figures
C9_Witness ==
    /\ Called("ping") /\ ret.raised = ""
    /\ PingStreams[2] = ""
    /\ DOMAIN ret.value = {"success"}
    /\ ret.value["success"].probes_sent = 2
    /\ ret.value["success"].packet_loss = 1
    /\ ret.value["success"].rtt_min = None
    /\ ret.value["success"].rtt_avg = None

(***************************************************************************)
(* VyOSDriver.get_arp_table                                                *)
(***************************************************************************)
\* unicode(s) of a byte string of ASCII characters
unicode(s) == [py |-> "unicode", text |-> s]

\* an entry that takes the hardware type for the hardware address
arp_entry_mut(line) ==
    [interface |-> unicode(Py(line, 4)),
     mac |-> unicode(Py(line, 1)),
     ip |-> unicode(Py(line, 0)),
     age |-> None]

\* the entry appended for the columns of one line
arp_entry(line) ==
    [interface |-> unicode(Py(line, 4)),
     mac |-> unicode(Py(line, 2)),
     ip |-> unicode(Py(line, 0)),
     age |-> None]

\* The loop over the lines kept; acc holds arp_table.
RECURSIVE arp_lines(_, _, _)
arp_lines(acc, output, k) ==
    IF k > Len(output) \/ acc.raised # "" THEN acc
    ELSE LET line == split_ws(output[k])
         IN  IF Len(line) < 5
             THEN [acc EXCEPT !.raised = "IndexError"]
             ELSE arp_lines([acc EXCEPT !.arp_table = Append(@, arp_entry(line))],
                            output, k + 1)

get_arp_table ==
    LET output == Slice(split(_send_command("show arp"), "\n"), 1, 1)
        acc == arp_lines([arp_table |-> <<>>, raised |-> ""], output, 1)
    IN  IF acc.raised # "" THEN Raise("get_arp_table", acc.raised)
        ELSE Return("get_arp_table", acc.arp_table)

GetArpTable ==
    /\ ret.fn = ""
    /\ ret' = get_arp_table
    /\ UNCHANGED <<channel, conf_tree, arg, _new_config, _device>>

\* ---- inputs: 'show arp' tables of at most MaxArpRows rows under the header
\* line, with and without the newline that ends the last row
MaxArpRows == 3

ArpHeader == "Address       HWtype  HWaddress          Flags Mask  Iface"

ArpRowKinds == {"eth0", "eth1", "incomplete", "blank"}

ArpRow(kind) ==
    CASE kind = "eth0" -> "10.129.2.254  ether   00:50:56:97:af:b1  C           eth0"
      [] kind = "eth1" -> "192.168.1.1   ether   00:50:56:ba:26:7f  C           eth1"
      [] kind = "incomplete" -> "192.168.1.134         (incomplete)                   eth1"
      [] kind = "blank" -> ""

ShowArp(kinds, newline) ==
    JoinLines(<<ArpHeader>> \o [k \in 1..Len(kinds) |-> ArpRow(kinds[k])]
              \o (IF newline THEN <<"">> ELSE <<>>))

InitArp ==
    /\ channel \in {[c \in {"show arp"} |-> ShowArp(kinds, newline)] :
                      kinds \in SeqsOf(ArpRowKinds, 0, MaxArpRows), newline \in BOOLEAN}
                   \cup {[c \in {"show arp"} |-> ""]}
    /\ conf_tree = <<>>
    /\ arg = ""
    /\ ret = NoCall
    /\ _new_config = None
    /\ _device = <<>>

NextArp == GetArpTable

SpecArp == InitArp /\ [][NextArp]_vars

str(s) == [py |-> "str", text |-> s]

_CMD_PREFIX == ". /etc/bash_completion; eval _vyatta_op_run "

cfg_cmd_wrapper == "/opt/vyatta/sbin/vyatta-cfg-cmd-wrapper "

\* the operation that _send_command(command, is_vyatta_op) hands to exec_command
send_op(command, is_vyatta_op) ==
    IF is_vyatta_op THEN _CMD_PREFIX \o command ELSE command

\* x is not "", for a piece x of a string of the type py: "" is the one empty
\* str object, and no unicode object is that object
is_not_empty_str(py, x) == py # "str" \/ x # ""

\* cfg = [x for x in self._new_config.split("\n") if x is not ""]
cfg(new_config) ==
    SelectSeq(split(new_config.text, "\n"), LAMBDA x : is_not_empty_str(new_config.py, x))

\* the command line that commit_config builds
cfg_cmd(new_config) ==
    LET lines == cfg(new_config)
    IN  cfg_cmd_wrapper \o "begin;"
            \o Concat([k \in 1..Len(lines) |-> cfg_cmd_wrapper \o lines[k] \o ";"])
            \o cfg_cmd_wrapper \o "commit;"
            \o cfg_cmd_wrapper \o "end;"

\* a discard that leaves the candidate in place
discard_mut(new_config) == new_config

\* self._new_config = None
discard(new_config) == None

\* ---- inputs: candidates of at most MaxConfigLines lines, str and unicode
MaxConfigLines == 3

ConfigLines == {"set a", "delete b", ""}

Candidates ==
    {str(JoinLines(ls)) : ls \in SeqsOf(ConfigLines, 0, MaxConfigLines)}
    \cup {unicode(JoinLines(ls)) : ls \in SeqsOf(ConfigLines, 0, MaxConfigLines)}

\* os is not imported by the module, so os.path.exists raises NameError
LoadMergeCandidate ==
    /\ \E filename \in {None, str("candidate.cfg")}, config \in {None} \cup Candidates :
          IF filename # None
          THEN /\ ret' = Raise("load_merge_candidate", "NameError")
               /\ UNCHANGED _new_config
          ELSE IF config # None
          THEN /\ _new_config' = config
               /\ ret' = Return("load_merge_candidate", None)
          ELSE /\ ret' = Raise("load_merge_candidate", "MergeConfigException")
               /\ UNCHANGED _new_config
    /\ _device' = <<>>
    /\ UNCHANGED <<channel, conf_tree, arg>>

DiscardConfig ==
    /\ _new_config' = discard(_new_config)
    /\ ret' = Return("discard_config", None)
    /\ _device' = <<>>
    /\ UNCHANGED <<channel, conf_tree, arg>>

\* None has no split: AttributeError before anything is sent
CommitConfig ==
    /\ IF _new_config = None
       THEN /\ ret' = Raise("commit_config", "AttributeError")
            /\ _device' = <<>>
       ELSE /\ ret' = Return("commit_config", None)
            /\ _device' = <<send_op(cfg_cmd(_new_config), TRUE)>>
    /\ UNCHANGED <<channel, conf_tree, arg, _new_config>>

InitConfig ==
    /\ channel = <<>>
    /\ conf_tree = <<>>
    /\ arg = ""
    /\ ret = NoCall
    /\ _new_config = None
    /\ _device = <<>>

NextConfig == LoadMergeCandidate \/ DiscardConfig \/ CommitConfig

SpecConfig == InitConfig /\ [][NextConfig]_vars

\* ---- claims about the configuration session
\* the statements of a shell command line, without the blanks around them
Statements(op) ==
    LET parts == split(op, ";")
    IN  [k \in 1..Len(parts) |-> strip(parts[k], {" "})]

\* the arguments of the statements that invoke the configuration wrapper
WrapperInvocations(op) ==
    LET wrapper == strip(cfg_cmd_wrapper, {" "})
        invokes == SelectSeq(Statements(op), LAMBDA st : At(st, 1, wrapper))
    IN  [k \in 1..Len(invokes) |->
            strip(SubSeq(invokes[k], Len(wrapper) + 1, Len(invokes[k])), {" "})]

NonEmptyLines(text) == SelectSeq(split(text, "\n"), LAMBDA x : x # "")

\* C11: a commit_config that returns has had the device execute one command,
\* whose wrapper invocations are begin, the non-empty lines of the candidate
\* in their order, commit and end.
C11_TransactionalSet ==
    [][(ret'.fn = "commit_config" /\ ret'.raised = "") =>
            /\ Len(_device') = 1
            /\ WrapperInvocations(_device'[1])
                 = <<"begin">> \o NonEmptyLines(_new_config.text) \o <<"commit", "end">>]_vars

\* C12: commit_config sends only the candidate that is loaded; without one (on
\* a fresh driver, after discard_config) it raises and sends nothing, and
\* discard_config leaves no candidate.
C12_OnlyLoadedCandidate ==
    [][/\ _device' # <<>> =>
            /\ ret'.fn = "commit_config"
            /\ _new_config # None
            /\ _device' = <<send_op(cfg_cmd(_new_config), TRUE)>>
       /\ (ret'.fn = "commit_config" /\ (_new_config = None \/ ret.fn \in {"", "discard_config"})) =>
            /\ ret'.raised = "AttributeError"
            /\ _device' = <<>>
       /\ ret'.fn = "discard_config" => _new_config' = None
       /\ (ret'.fn = "load_merge_candidate" /\ ret'.raised # "") =>
            _new_config' = _new_config]_vars

\* commit_config called with no candidate loaded: it raised and sent nothing
C12_Witness ==
    /\ ret = Raise("commit_config", "AttributeError")
    /\ _new_config = None
    /\ _device = <<>>

=============================================================================
